---------------------------- MODULE Spec2Model ----------------------------
(***************************************************************************)
(* Model of claude/generate_mascot.py: a linear script that seeds the      *)
(* random generator, allocates an RGBA canvas, issues a fixed sequence of  *)
(* draw calls (layers 1 to 11), composites the canvas over an opaque       *)
(* backdrop and saves two PNG files.                                       *)
(*                                                                         *)
(* The raster is observed at a finite set of pixel coordinates             *)
(* (SamplePts).  The canvas is opened with ImageDraw.Draw(img) on an RGBA  *)
(* image, so a draw call REPLACES the covered pixels by its ink, alpha     *)
(* included (the drawing library blends only when an RGB image is drawn on *)
(* in RGBA mode).  Coverage of a pixel by a shape is the ideal geometric   *)
(* one.  Floating-point expressions of the script are given by the exact   *)
(* rational value, corrected at the arguments where IEEE doubles round to  *)
(* the other side of an integer.                                           *)
(***************************************************************************)
EXTENDS Integers, Sequences, FiniteSets, TLC

(***************************************************************************)
(* Bounds of the model (not program constants).                            *)
(***************************************************************************)
\* number of candidate output streams of the library generator for seed 42
NumStreams == 5
\* number of states of the stand-in generator
RngMod == 1021
\* number of OS-entropy states an unseeded generator may start from
NumEntropy == 2
\* number of times the script is run, one after the other
MaxRuns == 2

(***************************************************************************)
(* Canvas and palette, lines 24-39.                                        *)
(***************************************************************************)
SIZE == 1024
CENTER == SIZE \div 2
CX == CENTER
CY == CENTER

BG_DARK == <<10, 10, 13, 255>>
GOLD == <<212, 168, 83, 255>>
GOLD_DARK == <<170, 125, 42, 255>>
GOLD_WARM == <<196, 148, 42, 255>>
GOLD_LIGHT == <<240, 210, 150, 255>>
GOLD_PALE == <<255, 235, 190, 255>>
BODY_DARK == <<30, 30, 36, 255>>
WING_DARK == <<22, 22, 28, 255>>
FACE_DISC == <<40, 40, 48, 255>>
EYE_BG == <<6, 6, 8, 255>>

\* the gold (212, 168, 83) at a given alpha, written inline all over the script
GoldA(a) == <<212, 168, 83, a>>
\* the light gold (240, 210, 150) at a given alpha
LightA(a) == <<240, 210, 150, a>>

(***************************************************************************)
(* Sequence helpers.                                                       *)
(***************************************************************************)
RECURSIVE Flatten(_)
Flatten(ss) == IF ss = <<>> THEN <<>> ELSE Head(ss) \o Flatten(Tail(ss))

Abs(x) == IF x < 0 THEN -x ELSE x

\* Python's int() of the rational num/den (den > 0): truncation toward zero
IntTrunc(num, den) == IF num >= 0 THEN num \div den ELSE -((-num) \div den)

(***************************************************************************)
(* Drawing helpers, lines 42-55.  A draw call is a record; xy is the flat  *)
(* coordinate list handed to the drawing library.                          *)
(***************************************************************************)
ellipse(x0, y0, x1, y1, fill) ==
    [op |-> "ellipse", xy |-> <<x0, y0, x1, y1>>, ink |-> fill, width |-> 0]

circle(cx, cy, r, fill) == ellipse(cx - r, cy - r, cx + r, cy + r, fill)

ring(cx, cy, r, w, fill) ==
    [op |-> "outline", xy |-> <<cx - r, cy - r, cx + r, cy + r>>,
     ink |-> fill, width |-> w]

poly(pts, fill) ==
    [op |-> "polygon", xy |-> Flatten(pts), ink |-> fill, width |-> 0]

line(x1, y1, x2, y2, fill, w) ==
    [op |-> "line", xy |-> <<x1, y1, x2, y2>>, ink |-> fill, width |-> w]

\* lerp(c1, c2, t) for t = (r/30)*(r/30), line 67-68 as used at line 173.
\* In doubles, (25/30)*(25/30) is just above 25/36, so a channel whose exact
\* value there is an integer reached from above (blue: 150 - 108*t = 75)
\* comes out one lower (74).
lerp(c1, c2, r) ==
    [i \in 1..4 |->
        IF r = 25 /\ c2[i] < c1[i] /\ ((c2[i] - c1[i]) * r * r) % 900 = 0
        THEN IntTrunc(c1[i] * 900 + (c2[i] - c1[i]) * r * r, 900) - 1
        ELSE IntTrunc(c1[i] * 900 + (c2[i] - c1[i]) * r * r, 900)]

(***************************************************************************)
(* LAYER 1: background, lines 76-84.                                       *)
(***************************************************************************)
\* int(25 * (1 - r/440) ** 2); in doubles 1 - 352/440 is just below 0.2 and
\* the product just below 1.
BgAlpha(r) == IF r = 352 THEN 0 ELSE (25 * (440 - r) * (440 - r)) \div (440 * 440)

\* range(440, 0, -2): 440, 438, ..., 2
Layer1 == [i \in 1..220 |->
             circle(CX, CY - 20, 442 - 2 * i, <<180, 140, 60, BgAlpha(442 - 2 * i)>>)]

(***************************************************************************)
(* LAYER 2: body silhouette, lines 94-103.                                 *)
(***************************************************************************)
OWL_Y == -25

Layer2 ==
    << ellipse(CX - 160, CY + 30 + OWL_Y, CX + 160, CY + 290 + OWL_Y, BODY_DARK),
       ellipse(CX - 155, CY - 40 + OWL_Y, CX + 155, CY + 180 + OWL_Y, BODY_DARK),
       ellipse(CX - 130, CY - 120 + OWL_Y, CX + 130, CY + 60 + OWL_Y, BODY_DARK) >>

(***************************************************************************)
(* LAYER 3: head and ear tufts, lines 110-134.                             *)
(***************************************************************************)
HEAD_Y == CY - 185 + OWL_Y
HEAD_RX == 148
HEAD_RY == 125
EAR_H == 70

Sides == <<-1, 1>>

Ear(side) ==
    LET ear_x == CX + side * 105
        ear_tip_x == CX + side * 95
        ear_base_inner == CX + side * 65
    IN << poly(<< <<ear_x, HEAD_Y - HEAD_RY + 25>>,
                  <<ear_tip_x, HEAD_Y - HEAD_RY - EAR_H>>,
                  <<ear_base_inner, HEAD_Y - HEAD_RY + 15>> >>, BODY_DARK),
          line(ear_x, HEAD_Y - HEAD_RY + 25, ear_tip_x, HEAD_Y - HEAD_RY - EAR_H,
               GoldA(70), 2) >>

Layer3 ==
    << ellipse(CX - HEAD_RX, HEAD_Y - HEAD_RY, CX + HEAD_RX, HEAD_Y + HEAD_RY,
               BODY_DARK) >>
    \o Flatten([s \in 1..2 |-> Ear(Sides[s])])

(***************************************************************************)
(* LAYER 4: facial disc, lines 143-150.                                    *)
(***************************************************************************)
Layer4 ==
    << ellipse(CX - 100, HEAD_Y - 75, CX + 100, HEAD_Y + 55, FACE_DISC),
       poly(<< <<CX - 15, HEAD_Y - 80>>, <<CX, HEAD_Y - 55>>,
               <<CX + 15, HEAD_Y - 80>>, <<CX, HEAD_Y - 90>> >>, BODY_DARK) >>

(***************************************************************************)
(* LAYER 5: eyes, lines 157-186.                                           *)
(***************************************************************************)
EYE_Y == HEAD_Y - 10
EYE_SPACING == 62

Eye(side) ==
    LET ex == CX + side * EYE_SPACING
    IN << ring(ex, EYE_Y, 40, 3, GOLD),
          circle(ex, EYE_Y, 38, EYE_BG) >>
       \o [i \in 1..30 |-> circle(ex, EYE_Y, 31 - i, lerp(GOLD_LIGHT, GOLD_DARK, 31 - i))]
       \o << circle(ex, EYE_Y, 12, EYE_BG),
             ring(ex, EYE_Y, 12, 1, GoldA(40)),
             circle(ex - 9, EYE_Y - 9, 5, GOLD_PALE),
             circle(ex + 5, EYE_Y + 5, 2, LightA(100)) >>

Layer5 == Flatten([s \in 1..2 |-> Eye(Sides[s])])

(***************************************************************************)
(* LAYER 6: beak, lines 193-202.                                           *)
(***************************************************************************)
BEAK_Y == HEAD_Y + 32

Layer6 ==
    << poly(<< <<CX - 11, BEAK_Y>>, <<CX + 11, BEAK_Y>>, <<CX, BEAK_Y + 22>> >>,
            GOLD_WARM),
       line(CX - 10, BEAK_Y + 1, CX, BEAK_Y + 20, GOLD_LIGHT, 1) >>

(***************************************************************************)
(* LAYER 7: wings, lines 211-241.                                          *)
(***************************************************************************)
wing_pts(s) ==
    << <<CX + s * 150, CY - 50 + OWL_Y>>,
       <<CX + s * 175, CY + 10 + OWL_Y>>,
       <<CX + s * 200, CY + 80 + OWL_Y>>,
       <<CX + s * 205, CY + 160 + OWL_Y>>,
       <<CX + s * 185, CY + 220 + OWL_Y>>,
       <<CX + s * 155, CY + 260 + OWL_Y>>,
       <<CX + s * 135, CY + 230 + OWL_Y>>,
       <<CX + s * 130, CY + 160 + OWL_Y>>,
       <<CX + s * 135, CY + 60 + OWL_Y>> >>

\* frac * 200 for frac in [0.35, 0.55, 0.75]: 70, 110, 150 (exact in doubles)
FeatherFrac200 == <<70, 110, 150>>

Wing(s) ==
    LET w == wing_pts(s)
    IN << poly(w, WING_DARK) >>
       \o [i \in 1..5 |-> line(w[i][1], w[i][2], w[i + 1][1], w[i + 1][2], GoldA(55), 2)]
       \o << line(w[5][1], w[5][2], w[6][1], w[6][2], GoldA(70), 2) >>
       \o [j \in 1..3 |->
             LET fy == CY + OWL_Y + 20 + FeatherFrac200[j]
                 fx_inner == CX + s * 138
                 fx_outer == CX + s * (195 - (j - 1) * 12)
             IN line(fx_inner, fy, fx_outer, fy + 12, GoldA(30), 1)]

Layer7 == Flatten([s \in 1..2 |-> Wing(Sides[s])])

(***************************************************************************)
(* LAYER 8: neural pattern on the chest, lines 258-359.                    *)
(***************************************************************************)
chest_top == CY + 15 + OWL_Y
chest_bot == CY + 250 + OWL_Y
chest_mid == (chest_top + chest_bot) \div 2

\* int(12 * (1 - r/130) ** 2), line 264-265
GlowAlphaRising(r) == (12 * r * r) \div (130 * 130)
GlowAlpha(r) == (12 * (130 - r) * (130 - r)) \div (130 * 130)

\* range(130, 0, -2): 130, 128, ..., 2
GlowRadius(i) == 132 - 2 * i

ChestGlow == [i \in 1..65 |->
                circle(CX, chest_mid - 10, GlowRadius(i), GoldA(GlowAlpha(GlowRadius(i))))]

nodes ==
    << <<CX, chest_top + 10>>,
       <<CX - 35, chest_top + 55>>, <<CX + 35, chest_top + 55>>, <<CX, chest_top + 70>>,
       <<CX - 70, chest_top + 100>>, <<CX - 25, chest_top + 110>>,
       <<CX + 25, chest_top + 110>>, <<CX + 70, chest_top + 100>>,
       <<CX - 100, chest_top + 155>>, <<CX - 55, chest_top + 160>>,
       <<CX, chest_top + 170>>, <<CX + 55, chest_top + 160>>,
       <<CX + 100, chest_top + 155>>,
       <<CX - 70, chest_top + 210>>, <<CX - 25, chest_top + 220>>,
       <<CX + 25, chest_top + 220>>, <<CX + 70, chest_top + 210>> >>

\* index pairs as written in the source: 0-based
conns ==
    << <<0, 1>>, <<0, 2>>, <<0, 3>>,
       <<1, 4>>, <<1, 5>>, <<2, 6>>, <<2, 7>>, <<3, 5>>, <<3, 6>>,
       <<4, 8>>, <<4, 9>>, <<5, 9>>, <<5, 10>>, <<6, 10>>, <<6, 11>>, <<7, 11>>, <<7, 12>>,
       <<8, 13>>, <<9, 13>>, <<9, 14>>, <<10, 14>>, <<10, 15>>, <<11, 15>>, <<11, 16>>,
       <<12, 16>>,
       <<1, 3>>, <<2, 3>>,
       <<4, 5>>, <<6, 7>>,
       <<8, 9>>, <<9, 10>>, <<10, 11>>, <<11, 12>>,
       <<13, 14>>, <<14, 15>>, <<15, 16>> >>

\* nodes[i] of the source, i counted from 0
NodeAt(ns, i) == ns[i + 1]

\* (x2 - x1) ** 2 + (y2 - y1) ** 2, the argument of math.sqrt at line 320
Dist2(p, q) == (q[1] - p[1]) * (q[1] - p[1]) + (q[2] - p[2]) * (q[2] - p[2])

\* the least m with 4*m >= sqrt(d2): ceil(dist / 4)
CeilQuarterDist(d2) ==
    CHOOSE m \in 0..50 : 16 * m * m >= d2 /\ (m = 0 \/ 16 * (m - 1) * (m - 1) < d2)

\* the m for which, with dist = 4*m exactly, 50 * (1 - dist/200) falls just
\* below the integer 50 - m in doubles
FloatShort == {17, 28, 34, 39, 40, 45, 46}

\* int(50 * (1 - min(dist / 200, 1))) with dist = sqrt(d2), line 321
FadeTermRising(d2) ==
    IF d2 >= 200 * 200 THEN 50 ELSE CeilQuarterDist(d2)
FadeTerm(d2) ==
    IF d2 >= 200 * 200 THEN 0
    ELSE LET m == CeilQuarterDist(d2)
         IN IF 16 * m * m = d2 /\ m \in FloatShort THEN 50 - m - 1 ELSE 50 - m

\* base_alpha, line 321
BaseAlpha(p, q) == 100 + FadeTerm(Dist2(p, q))

\* the four passes over one chest connection, lines 323-330
ChestPassesWideMid(p, q) ==
    LET base_alpha == BaseAlpha(p, q)
    IN << line(p[1], p[2], q[1], q[2], GoldA(base_alpha \div 3), 7),
          line(p[1], p[2], q[1], q[2], GoldA(base_alpha \div 2), 8),
          line(p[1], p[2], q[1], q[2], GoldA(base_alpha), 2),
          line(p[1], p[2], q[1], q[2], LightA(base_alpha \div 2), 1) >>
ChestPasses(p, q) ==
    LET base_alpha == BaseAlpha(p, q)
    IN << line(p[1], p[2], q[1], q[2], GoldA(base_alpha \div 3), 7),
          line(p[1], p[2], q[1], q[2], GoldA(base_alpha \div 2), 4),
          line(p[1], p[2], q[1], q[2], GoldA(base_alpha), 2),
          line(p[1], p[2], q[1], q[2], LightA(base_alpha \div 2), 1) >>

ChestConns ==
    Flatten([c \in 1..Len(conns) |->
               ChestPasses(NodeAt(nodes, conns[c][1]), NodeAt(nodes, conns[c][2]))])

\* the tier of node i (counted from 0): the if/elif chain of lines 335-355
Tier(i) ==
    IF i = 0 THEN 0
    ELSE IF i <= 3 THEN 1
    ELSE IF i <= 7 THEN 2
    ELSE IF i <= 12 THEN 3
    ELSE 4

\* <<outer-glow radius, outer alpha, core radius, core alpha, highlight radius>>
\* of each tier, lines 337-359
TierStyleBigLeaves(t) ==
    CASE t = 0 -> <<12, 60, 7, 220, 4>>
      [] t = 1 -> <<10, 50, 6, 200, 3>>
      [] t = 2 -> <<8, 45, 5, 180, 2>>
      [] t = 3 -> <<7, 40, 4, 160, 2>>
      [] OTHER -> <<6, 35, 8, 140, 2>>
TierStyle(t) ==
    CASE t = 0 -> <<12, 60, 7, 220, 4>>
      [] t = 1 -> <<10, 50, 6, 200, 3>>
      [] t = 2 -> <<8, 45, 5, 180, 2>>
      [] t = 3 -> <<7, 40, 4, 160, 2>>
      [] OTHER -> <<6, 35, 4, 140, 2>>

\* the three circles of chest node i (counted from 0)
NodeCalls(i) ==
    LET n == NodeAt(nodes, i)
        st == TierStyle(Tier(i))
    IN << circle(n[1], n[2], st[1], GoldA(st[2])),
          circle(n[1], n[2], st[3], GoldA(st[4])),
          circle(n[1], n[2], st[5], GOLD_LIGHT) >>

ChestNodes == Flatten([j \in 1..Len(nodes) |-> NodeCalls(j - 1)])

Layer8 == ChestGlow \o ChestConns \o ChestNodes

(***************************************************************************)
(* LAYER 9: neural pattern on the head, lines 369-397.                     *)
(***************************************************************************)
h_nodes ==
    << <<CX, HEAD_Y - 85>>,
       <<CX - 35, HEAD_Y - 70>>, <<CX + 35, HEAD_Y - 70>>,
       <<CX - 55, HEAD_Y - 45>>, <<CX - 18, HEAD_Y - 48>>,
       <<CX + 18, HEAD_Y - 48>>, <<CX + 55, HEAD_Y - 45>>,
       <<CX, HEAD_Y - 28>> >>

h_conns ==
    << <<0, 1>>, <<0, 2>>,
       <<1, 3>>, <<1, 4>>, <<2, 5>>, <<2, 6>>,
       <<3, 4>>, <<4, 7>>, <<5, 7>>, <<5, 6>>,
       <<1, 2>>, <<4, 5>> >>

\* the three passes over one head connection, lines 390-392
HeadPasses(p, q) ==
    << line(p[1], p[2], q[1], q[2], GoldA(30), 5),
       line(p[1], p[2], q[1], q[2], GoldA(70), 2),
       line(p[1], p[2], q[1], q[2], LightA(35), 1) >>

HeadConns ==
    Flatten([c \in 1..Len(h_conns) |->
               HeadPasses(NodeAt(h_nodes, h_conns[c][1]), NodeAt(h_nodes, h_conns[c][2]))])

HeadNodes ==
    Flatten([j \in 1..Len(h_nodes) |->
               << circle(h_nodes[j][1], h_nodes[j][2], 5, GoldA(50)),
                  circle(h_nodes[j][1], h_nodes[j][2], 3, GoldA(160)),
                  circle(h_nodes[j][1], h_nodes[j][2], 1, GOLD_LIGHT) >>])

Layer9 == HeadConns \o HeadNodes

(***************************************************************************)
(* LAYER 10: feet, lines 404-409.                                          *)
(***************************************************************************)
FEET_Y == CY + 280 + OWL_Y

Offsets == <<-10, 0, 10>>

Foot(side) ==
    LET fx == CX + side * 45
    IN [o \in 1..3 |->
          line(fx + Offsets[o], FEET_Y, fx + Offsets[o] + side * 4, FEET_Y + 16,
               GoldA(80), 2)]

Layer10 == Flatten([s \in 1..2 |-> Foot(Sides[s])])

(***************************************************************************)
(* LAYER 11, first part: the outer frame ring, line 417.                   *)
(***************************************************************************)
FrameRadius == 478

FrameRing == ring(CX, CY, FrameRadius, 1, GoldA(40))

(***************************************************************************)
(* The draw calls of lines 80-417, in the order the script issues them.    *)
(***************************************************************************)
Script ==
    Layer1 \o Layer2 \o Layer3 \o Layer4 \o Layer5 \o Layer6 \o Layer7
    \o Layer8 \o Layer9 \o Layer10 \o << FrameRing >>

\* positions in Script: the number of calls issued before each loop starts
GlowBase == Len(Layer1) + Len(Layer2) + Len(Layer3) + Len(Layer4) + Len(Layer5)
            + Len(Layer6) + Len(Layer7)
ConnBase == GlowBase + Len(ChestGlow)
NodeBase == ConnBase + Len(ChestConns)
HeadConnBase == NodeBase + Len(ChestNodes)

(***************************************************************************)
(* The random generator, lines 19-21 and 421-426.  The library generator   *)
(* is a deterministic state machine: seeding puts it in a state that       *)
(* depends on the seed alone, every draw advances the state and returns a  *)
(* value that depends on the state alone.  A linear congruential generator *)
(* over RngMod states stands for it; which stream seed 42 yields is left   *)
(* open (lib, chosen in Init).                                             *)
(***************************************************************************)
SEED == 42

RngNext(s) == (5 * s + 3) % RngMod

SeedState(seed, stream) == (seed * 7 + stream * 131) % RngMod

\* random.seed(42) at line 21: the state no longer depends on the old one
ReseedKeepsOld(old, stream) == old
Reseed(old, stream) == SeedState(SEED, stream)

\* the denominator of the values random.uniform returns: the generator
\* state s stands for the fraction s / (RngMod - 1) of [0, 1], both ends
\* included (uniform(a, b) may return b by rounding)
UDen == RngMod - 1

\* random.uniform(a, b) as numerator over UDen
Uniform(a, b, s) == a * UDen + (b - a) * s

\* directions with rational cosine and sine, <<c, s, h>> for (c/h, s/h),
\* in the order of their angle in [0, 2*pi): the angles random.uniform(0,
\* 2*pi) is sampled at
Dirs ==
 << <<1, 0, 1>>, <<24, 7, 25>>, <<12, 5, 13>>, <<15, 8, 17>>,
    <<4, 3, 5>>, <<21, 20, 29>>, <<20, 21, 29>>, <<3, 4, 5>>,
    <<8, 15, 17>>, <<5, 12, 13>>, <<7, 24, 25>>, <<0, 1, 1>>,
    <<-7, 24, 25>>, <<-5, 12, 13>>, <<-8, 15, 17>>, <<-3, 4, 5>>,
    <<-20, 21, 29>>, <<-21, 20, 29>>, <<-4, 3, 5>>, <<-15, 8, 17>>,
    <<-12, 5, 13>>, <<-24, 7, 25>>, <<-1, 0, 1>>, <<-24, -7, 25>>,
    <<-12, -5, 13>>, <<-15, -8, 17>>, <<-4, -3, 5>>, <<-21, -20, 29>>,
    <<-20, -21, 29>>, <<-3, -4, 5>>, <<-8, -15, 17>>, <<-5, -12, 13>>,
    <<-7, -24, 25>>, <<0, -1, 1>>, <<7, -24, 25>>, <<5, -12, 13>>,
    <<8, -15, 17>>, <<3, -4, 5>>, <<20, -21, 29>>, <<21, -20, 29>>,
    <<4, -3, 5>>, <<15, -8, 17>>, <<12, -5, 13>>, <<24, -7, 25>> >>

\* angle = random.uniform(0, 2 * math.pi), line 421, as an index in Dirs
AngleOf(s) == (s * Len(Dirs)) \div RngMod + 1

\* dist = random.uniform(360, 465), line 422, as numerator over UDen
DistWide(s) == Uniform(360, 480, s)
DistOf(s) == Uniform(360, 465, s)

\* sz = random.choice([1, 1, 2]), line 425
SizeOf(s) == <<1, 1, 2>>[(s * 3) \div RngMod + 1]

\* alpha = random.randint(15, 45), line 426
AlphaOf(s) == 15 + (s * 31) \div RngMod

\* number of particles, line 420
NParticles == 25

\* px, py = int(CX + dist * cos(angle)), int(CY + dist * sin(angle)), lines
\* 423-424, for the direction Dirs[a] and the distance dist / UDen
Centre(a, dist) ==
    LET d == Dirs[a]
    IN << IntTrunc(CX * UDen * d[3] + dist * d[1], UDen * d[3]),
          IntTrunc(CY * UDen * d[3] + dist * d[2], UDen * d[3]) >>

\* One iteration of the loop of lines 420-427 from generator state s: the
\* loop's variables and the generator state it leaves.
Particle(s) ==
    LET s1 == RngNext(s)
        s2 == RngNext(s1)
        s3 == RngNext(s2)
        s4 == RngNext(s3)
        c == Centre(AngleOf(s1), DistOf(s2))
    IN [angle |-> AngleOf(s1),
        dist |-> DistOf(s2),
        px |-> c[1],
        py |-> c[2],
        sz |-> SizeOf(s3),
        alpha |-> AlphaOf(s4),
        rng |-> s4]

ParticleCall(pt) == circle(pt.px, pt.py, pt.sz, GoldA(pt.alpha))

(***************************************************************************)
(* The raster.  Pixels are observed at SamplePts.                          *)
(***************************************************************************)
GlowCentre == <<CX, chest_mid - 10>>

SamplePts ==
    \* corners and edge midpoints of the canvas, and its centre
    { <<0, 0>>, <<SIZE - 1, 0>>, <<0, SIZE - 1>>, <<SIZE - 1, SIZE - 1>>,
      <<CX, 0>>, <<0, CY>>, <<SIZE - 1, CY>>, <<CX, SIZE - 1>>, <<CX, CY>> }
    \* rays from the centre of the chest glow: to the right, diagonal, upward
    \cup { <<GlowCentre[1] + d, GlowCentre[2]>> :
             d \in {0, 1, 2, 3, 31, 64, 65, 66, 99, 129, 130, 131} }
    \cup { <<GlowCentre[1] + 3 * t, GlowCentre[2] + 4 * t>> : t \in {1, 5, 13, 20, 26} }
    \cup { <<GlowCentre[1], GlowCentre[2] - d>> : d \in {2, 50, 128} }
    \* an eye, the beak, a wing, the frame ring
    \cup { <<CX - EYE_SPACING, EYE_Y>>, <<CX, BEAK_Y + 5>>, <<CX + 170, CY + 100>>,
           <<CX + FrameRadius, CY>> }
    \* the centres of the first particles of the first stream
    \cup { <<Particle(SeedState(SEED, 1)).px, Particle(SeedState(SEED, 1)).py>>,
           <<Particle(Particle(SeedState(SEED, 1)).rng).px,
             Particle(Particle(SeedState(SEED, 1)).rng).py>> }

\* p inside the ellipse inscribed in the box [x0, y0, x1, y1]
InEllipse(x0, y0, x1, y1, p) ==
    LET rx == (x1 - x0) \div 2
        ry == (y1 - y0) \div 2
        dx == Abs(p[1] - (x0 + rx))
        dy == Abs(p[2] - (y0 + ry))
    IN /\ x1 >= x0 /\ y1 >= y0
       /\ dx <= rx /\ dy <= ry
       /\ IF rx = ry
          THEN dx * dx + dy * dy <= rx * rx
          ELSE dx * dx * ry * ry + dy * dy * rx * rx <= rx * rx * ry * ry

\* p within w/2 of the segment a-b
OnLine(a, b, w, p) ==
    LET ux == b[1] - a[1]
        uy == b[2] - a[2]
        vx == p[1] - a[1]
        vy == p[2] - a[2]
        len2 == ux * ux + uy * uy
        dot == ux * vx + uy * vy
        cross == ux * vy - uy * vx
    IN /\ p[1] >= (IF a[1] < b[1] THEN a[1] ELSE b[1]) - w
       /\ p[1] <= (IF a[1] < b[1] THEN b[1] ELSE a[1]) + w
       /\ p[2] >= (IF a[2] < b[2] THEN a[2] ELSE b[2]) - w
       /\ p[2] <= (IF a[2] < b[2] THEN b[2] ELSE a[2]) + w
       /\ dot >= 0 /\ dot <= len2
       /\ cross * cross <= (w * w * len2) \div 4

\* the edge from a to b crosses the horizontal ray from p to the right
Crosses(a, b, p) ==
    /\ (a[2] > p[2]) # (b[2] > p[2])
    /\ IF b[2] > a[2]
       THEN (p[1] - a[1]) * (b[2] - a[2]) < (p[2] - a[2]) * (b[1] - a[1])
       ELSE (p[1] - a[1]) * (b[2] - a[2]) > (p[2] - a[2]) * (b[1] - a[1])

\* p inside the polygon whose vertices are listed flat in xy (even-odd rule)
InPolygon(xy, p) ==
    LET nv == Len(xy) \div 2
        V(i) == <<xy[2 * i - 1], xy[2 * i]>>
        W(i) == IF i = nv THEN V(1) ELSE V(i + 1)
    IN Cardinality({i \in 1..nv : Crosses(V(i), W(i), p)}) % 2 = 1

\* the pixels a draw call writes
Covers(call, p) ==
    CASE call.op = "ellipse" ->
           InEllipse(call.xy[1], call.xy[2], call.xy[3], call.xy[4], p)
      [] call.op = "outline" ->
           /\ InEllipse(call.xy[1], call.xy[2], call.xy[3], call.xy[4], p)
           /\ ~InEllipse(call.xy[1] + call.width, call.xy[2] + call.width,
                         call.xy[3] - call.width, call.xy[4] - call.width, p)
      [] call.op = "polygon" -> InPolygon(call.xy, p)
      [] call.op = "line" ->
           OnLine(<<call.xy[1], call.xy[2]>>, <<call.xy[3], call.xy[4]>>, call.width, p)

NoPixels == [p \in {} |-> <<>>]

NoImage == [mode |-> "none", size |-> <<0, 0>>, px |-> NoPixels]

\* the size handed to Image.new at lines 76 and 437
CanvasSizeHalfHeight == <<SIZE, CENTER>>
CanvasSize == <<SIZE, SIZE>>

\* Image.new(mode, size, color)
NewImage(mode, size, color) ==
    [mode |-> mode, size |-> size,
     px |-> [p \in {q \in SamplePts : q[1] < size[1] /\ q[2] < size[2]} |-> color]]

\* a draw call on the canvas: the covered pixels take the ink, alpha included
Paint(im, call) ==
    [im EXCEPT !.px = [p \in DOMAIN im.px |->
                         IF Covers(call, p) THEN call.ink ELSE im.px[p]]]

\* the drawing library's division by 255: ((a + (a >> 8)) >> 8)
ShiftForDiv255(a) == (a + a \div 256) \div 256

\* one pixel of Image.alpha_composite(dst, src): src over dst
Over(dst, src) ==
    IF src[4] = 0 THEN dst
    ELSE LET blend == dst[4] * (255 - src[4])
             outa255 == src[4] * 255 + blend
             coef1 == (src[4] * 255 * 255 * 128) \div outa255
             coef2 == 255 * 128 - coef1
             Ch(i) == ShiftForDiv255(src[i] * coef1 + dst[i] * coef2 + 128 * 128) \div 128
         IN <<Ch(1), Ch(2), Ch(3), ShiftForDiv255(outa255 + 128)>>

\* Image.alpha_composite accepts two RGBA images of the same size
CanComposite(dst, src) ==
    dst.mode = "RGBA" /\ src.mode = "RGBA" /\ dst.size = src.size

AlphaComposite(dst, src) ==
    [dst EXCEPT !.px = [p \in DOMAIN dst.px |-> Over(dst.px[p], src.px[p])]]

\* img.convert('RGB'): the alpha channel is dropped
ConvertRGB(im) ==
    [im EXCEPT !.mode = "RGB",
               !.px = [p \in DOMAIN im.px |-> <<im.px[p][1], im.px[p][2], im.px[p][3]>>]]

(***************************************************************************)
(* Output files, lines 434-447.                                            *)
(***************************************************************************)
output_path == "/Users/vivienmartin/Desktop/hora 2/claude/mascot-hora.png"
\* output_path.replace('.png', '-rgba.png')
rgba_path == "/Users/vivienmartin/Desktop/hora 2/claude/mascot-hora-rgba.png"
Paths == {output_path, rgba_path}

\* what a save that failed midway leaves behind
Truncated == [mode |-> "truncated", size |-> <<0, 0>>, px |-> NoPixels]

(***************************************************************************)
(* State.                                                                  *)
(***************************************************************************)
VARIABLES
    pc,         \* the statement the interpreter is at
    err,        \* the exception raised in this run, "none" if none
    k,          \* number of calls of Script issued in this run
    rng,        \* state of the random generator
    seeded,     \* the generator state line 21 left in this run, -1 before it
    lib,        \* which stream the library generator yields for a seed
    img,        \* the canvas, line 76
    img_final,  \* line 437-438
    img_rgb,    \* line 441
    log,        \* the draw calls issued in this run, in order
    particles,  \* the loop variables of lines 421-426, one record per iteration
    files,      \* the file system: content at each output path
    written,    \* the paths this run has saved completely
    stdout,     \* the lines this run has printed
    run,        \* number of the current run
    prev        \* what the previous run left: its draw calls, canvas and files,
                \* and the generator state its line 21 produced

vars == <<pc, err, k, rng, seeded, lib, img, img_final, img_rgb, log, particles,
          files, written, stdout, run, prev>>

\* the statements of the script in program order
StatementsPrintFirst ==
    << "seed", "new", "draw", "particles", "final_new", "composite", "convert",
       "print_saved", "print_size", "save_rgb", "save_rgba", "print_also", "done" >>
Statements ==
    << "seed", "new", "draw", "particles", "final_new", "composite", "convert",
       "save_rgb", "print_saved", "print_size", "save_rgba", "print_also", "done" >>

\* the statement after p
NextPc(p) ==
    LET i == CHOOSE j \in 1..Len(Statements) : Statements[j] = p
    IN Statements[i + 1]

\* Where an exception raised at statement p takes control: the script has no
\* try/except, the interpreter prints the traceback and exits.
UncaughtSkips(p) == NextPc(p)
Uncaught(p) == "aborted"

Terminated == pc \in {"done", "aborted"}

NoFiles == [f \in Paths |-> NoImage]

\* a fresh interpreter: the generator starts from OS entropy, nothing else
\* exists yet
Fresh(e) ==
    /\ pc = "seed" /\ err = "none" /\ k = 0
    /\ rng = e /\ seeded = -1
    /\ img = NoImage /\ img_final = NoImage /\ img_rgb = NoImage
    /\ log = <<>> /\ particles = <<>>
    /\ written = {} /\ stdout = <<>>

Init ==
    /\ \E e \in 0..(NumEntropy - 1) : Fresh(e)
    /\ lib \in 1..NumStreams
    /\ files = NoFiles
    /\ run = 1
    /\ prev = [log |-> <<>>, img |-> NoImage, files |-> NoFiles, seeded |-> -1,
               done |-> FALSE]

(***************************************************************************)
(* The statements.                                                         *)
(***************************************************************************)
\* line 21: random.seed(42)
Seed ==
    /\ pc = "seed"
    /\ rng' = Reseed(rng, lib)
    /\ seeded' = rng'
    /\ pc' = NextPc(pc)
    /\ UNCHANGED <<err, k, lib, img, img_final, img_rgb, log, particles,
                   files, written, stdout, run, prev>>

\* lines 76-77: img = Image.new('RGBA', (SIZE, SIZE), BG_DARK)
NewCanvas ==
    /\ pc = "new"
    /\ img' = NewImage("RGBA", CanvasSize, BG_DARK)
    /\ pc' = NextPc(pc)
    /\ UNCHANGED <<err, k, rng, seeded, lib, img_final, img_rgb, log, particles,
                   files, written, stdout, run, prev>>

\* lines 80-417: the next draw call of the fixed script
DrawStep ==
    /\ pc = "draw"
    /\ k < Len(Script)
    /\ img' = Paint(img, Script[k + 1])
    /\ log' = Append(log, Script[k + 1])
    /\ k' = k + 1
    /\ pc' = IF k + 1 = Len(Script) THEN NextPc(pc) ELSE pc
    /\ UNCHANGED <<err, rng, seeded, lib, img_final, img_rgb, particles,
                   files, written, stdout, run, prev>>

\* lines 420-427: one ambient particle
ParticleStep ==
    /\ pc = "particles"
    /\ Len(particles) < NParticles
    /\ LET pt == Particle(rng)
       IN /\ rng' = pt.rng
          /\ particles' = Append(particles, pt)
          /\ img' = Paint(img, ParticleCall(pt))
          /\ log' = Append(log, ParticleCall(pt))
    /\ pc' = IF Len(particles) + 1 = NParticles THEN NextPc(pc) ELSE pc
    /\ UNCHANGED <<err, k, seeded, lib, img_final, img_rgb,
                   files, written, stdout, run, prev>>

\* line 437: img_final = Image.new('RGBA', (SIZE, SIZE), BG_DARK)
NewFinal ==
    /\ pc = "final_new"
    /\ img_final' = NewImage("RGBA", CanvasSize, BG_DARK)
    /\ pc' = NextPc(pc)
    /\ UNCHANGED <<err, k, rng, seeded, lib, img, img_rgb, log, particles,
                   files, written, stdout, run, prev>>

\* line 438: img_final = Image.alpha_composite(img_final, img)
Composite ==
    /\ pc = "composite"
    /\ IF CanComposite(img_final, img)
       THEN /\ img_final' = AlphaComposite(img_final, img)
            /\ pc' = NextPc(pc)
            /\ err' = err
       ELSE /\ err' = "ValueError"
            /\ pc' = Uncaught(pc)
            /\ img_final' = img_final
    /\ UNCHANGED <<k, rng, seeded, lib, img, img_rgb, log, particles,
                   files, written, stdout, run, prev>>

\* line 441: img_rgb = img_final.convert('RGB')
Convert ==
    /\ pc = "convert"
    /\ img_rgb' = ConvertRGB(img_final)
    /\ pc' = NextPc(pc)
    /\ UNCHANGED <<err, k, rng, seeded, lib, img, img_final, log, particles,
                   files, written, stdout, run, prev>>

\* line 442: img_rgb.save(output_path, 'PNG', quality=95)
SaveRGB ==
    /\ pc = "save_rgb"
    /\ files' = [files EXCEPT ![output_path] = img_rgb]
    /\ written' = written \cup {output_path}
    /\ pc' = NextPc(pc)
    /\ UNCHANGED <<err, k, rng, seeded, lib, img, img_final, img_rgb, log, particles,
                   stdout, run, prev>>

\* line 443: print(f"Saved to: {output_path}")
PrintSaved ==
    /\ pc = "print_saved"
    /\ stdout' = Append(stdout, <<"Saved to", output_path>>)
    /\ pc' = NextPc(pc)
    /\ UNCHANGED <<err, k, rng, seeded, lib, img, img_final, img_rgb, log, particles,
                   files, written, run, prev>>

\* line 444: print(f"Size: {img_final.size}")
PrintSize ==
    /\ pc = "print_size"
    /\ stdout' = Append(stdout, <<"Size", img_final.size>>)
    /\ pc' = NextPc(pc)
    /\ UNCHANGED <<err, k, rng, seeded, lib, img, img_final, img_rgb, log, particles,
                   files, written, run, prev>>

\* line 447: img_final.save(output_path.replace('.png', '-rgba.png'), 'PNG')
SaveRGBA ==
    /\ pc = "save_rgba"
    /\ files' = [files EXCEPT ![rgba_path] = img_final]
    /\ written' = written \cup {rgba_path}
    /\ pc' = NextPc(pc)
    /\ UNCHANGED <<err, k, rng, seeded, lib, img, img_final, img_rgb, log, particles,
                   stdout, run, prev>>

\* line 448: print("Also saved RGBA version")
PrintAlso ==
    /\ pc = "print_also"
    /\ stdout' = Append(stdout, <<"Also saved RGBA version">>)
    /\ pc' = NextPc(pc)
    /\ UNCHANGED <<err, k, rng, seeded, lib, img, img_final, img_rgb, log, particles,
                   files, written, run, prev>>

(***************************************************************************)
(* Failures the runtime or the libraries may raise.                        *)
(***************************************************************************)
\* an image cannot be allocated (lines 76, 437, 438, 441)
AllocFail ==
    /\ pc \in {"new", "final_new", "composite", "convert"}
    /\ err' = "AllocationError"
    /\ pc' = Uncaught(pc)
    /\ UNCHANGED <<k, rng, seeded, lib, img, img_final, img_rgb, log, particles,
                   files, written, stdout, run, prev>>

\* a draw call raises (lines 80-427)
DrawFail ==
    /\ pc \in {"draw", "particles"}
    /\ err' = "DrawError"
    /\ pc' = Uncaught(pc)
    /\ UNCHANGED <<k, rng, seeded, lib, img, img_final, img_rgb, log, particles,
                   files, written, stdout, run, prev>>

\* a save raises (lines 442, 447): the path cannot be opened and the file is
\* left as it was, or the write stops midway and the file is left truncated
SaveFail ==
    /\ pc \in {"save_rgb", "save_rgba"}
    /\ LET path == IF pc = "save_rgb" THEN output_path ELSE rgba_path
       IN \E left \in {files[path], Truncated} :
            files' = [files EXCEPT ![path] = left]
    /\ err' = "IOError"
    /\ pc' = Uncaught(pc)
    /\ UNCHANGED <<k, rng, seeded, lib, img, img_final, img_rgb, log, particles,
                   written, stdout, run, prev>>

(***************************************************************************)
(* The script is run again after a complete run: a new interpreter, the    *)
(* same file system.                                                       *)
(***************************************************************************)
Rerun ==
    /\ run < MaxRuns
    /\ pc = "done"
    /\ \E e \in 0..(NumEntropy - 1) :
         /\ pc' = "seed" /\ err' = "none" /\ k' = 0
         /\ rng' = e /\ seeded' = -1
         /\ img' = NoImage /\ img_final' = NoImage /\ img_rgb' = NoImage
         /\ log' = <<>> /\ particles' = <<>>
         /\ written' = {} /\ stdout' = <<>>
    /\ run' = run + 1
    /\ prev' = [log |-> log, img |-> img, files |-> files, seeded |-> seeded,
                done |-> TRUE]
    /\ UNCHANGED <<lib, files>>

Next ==
    \/ Seed
    \/ NewCanvas
    \/ DrawStep
    \/ ParticleStep
    \/ NewFinal
    \/ Composite
    \/ Convert
    \/ SaveRGB
    \/ PrintSaved
    \/ PrintSize
    \/ SaveRGBA
    \/ PrintAlso
    \/ AllocFail
    \/ DrawFail
    \/ SaveFail
    \/ Rerun

Spec == Init /\ [][Next]_vars

(***************************************************************************)
(* Properties.                                                             *)
(***************************************************************************)
\* radius of a circle call, from the box it was issued with
Radius(call) == (call.xy[3] - call.xy[1]) \div 2

\* the files as the run found them
FilesAtStart == IF run = 1 THEN NoFiles ELSE prev.files

Printed(what) == \E i \in 1..Len(stdout) : stdout[i][1] = what

TotalCalls == Len(Script) + NParticles

----------------------------------------------------------------------------
\* C1: a second complete run with the same seed starts its draw calls from
\* the same generator state as the first, issues the same draw calls
\* with the same arguments as the first (at every point of the run the calls
\* issued so far are those the first run issued at the same positions), ends
\* with the same raster, and leaves the same content in both output files,
\* which it has written anew.
Determinism ==
    (run > 1 /\ prev.done) =>
        /\ pc # "seed" => seeded = prev.seeded
        /\ Len(log) <= Len(prev.log)
        /\ \A i \in 1..Len(log) : log[i] = prev.log[i]
        /\ pc = "done" =>
             /\ log = prev.log
             /\ img = prev.img
             /\ written = Paths
             /\ files = prev.files

DeterminismWitness ==
    /\ run = 2 /\ prev.done /\ pc = "done"
    /\ Len(log) = TotalCalls
    /\ written = Paths
    /\ files[rgba_path].mode = "RGBA"

----------------------------------------------------------------------------
\* C2: every image of the run (canvas, composite, RGB conversion) and both
\* output files are 1024x1024 at every point of the run; the first file is
\* RGB and the second RGBA.
DimensionInvariant ==
    /\ \A im \in {img, img_final, img_rgb} :
         im.mode # "none" => im.size = <<1024, 1024>>
    /\ \A f \in Paths :
         files[f].mode \in {"RGB", "RGBA"} => files[f].size = <<1024, 1024>>
    /\ output_path \in written => files[output_path].mode = "RGB"
    /\ rgba_path \in written => files[rgba_path].mode = "RGBA"

DimensionWitness ==
    /\ pc = "done" /\ written = Paths
    /\ Len(log) = TotalCalls
    /\ files[output_path].size = <<1024, 1024>>
    /\ files[rgba_path].size = <<1024, 1024>>

----------------------------------------------------------------------------
\* C3: once the RGBA file is written, at least one of its pixels has an
\* alpha different from 255.
RgbaAlphaNonTrivial ==
    rgba_path \in written =>
        \E p \in DOMAIN files[rgba_path].px : files[rgba_path].px[p][4] # 255

----------------------------------------------------------------------------
\* C4: a run in which a draw call or an allocation has failed is aborted,
\* has written no file and has left the file system as it found it; a file
\* is written only after all draw calls of the script and all particles
\* have been issued.
AllOrNothing ==
    /\ err \in {"DrawError", "AllocationError", "ValueError"} =>
         /\ pc = "aborted"
         /\ written = {}
         /\ files = FilesAtStart
    /\ (written # {} \/ pc \in {"save_rgb", "save_rgba"}) =>
         /\ k = Len(Script)
         /\ Len(particles) = NParticles
         /\ Len(log) = TotalCalls

AllOrNothingWitness ==
    /\ run = 2 /\ err = "DrawError" /\ pc = "aborted"
    /\ Len(particles) > 0 /\ Len(particles) < NParticles
    /\ written = {}
    /\ files[output_path].mode = "RGB"

----------------------------------------------------------------------------
\* C5 as stated: a terminated run that printed the path and the size has
\* written both files, and a run in which a save failed has printed nothing.
ReportedOnlyOnSuccess ==
    /\ (Terminated /\ Printed("Saved to") /\ Printed("Size")) => written = Paths
    /\ err = "IOError" => stdout = <<>>

\* C5 as amended: the path and the size are printed only once the RGB file
\* is written; "Also saved RGBA version" only once both are; a run whose RGB
\* save failed has printed nothing, a run whose RGBA save failed has printed
\* exactly the path and the size.
ReportedAfterRgbSave ==
    /\ (Printed("Saved to") \/ Printed("Size")) => output_path \in written
    /\ Printed("Also saved RGBA version") => written = Paths
    /\ (err = "IOError" /\ output_path \notin written) => stdout = <<>>
    /\ (err = "IOError" /\ output_path \in written) =>
         /\ stdout = << <<"Saved to", output_path>>, <<"Size", <<1024, 1024>> >> >>
         /\ rgba_path \notin written

ReportedWitness ==
    /\ err = "IOError" /\ pc = "aborted"
    /\ output_path \in written /\ rgba_path \notin written
    /\ Len(stdout) = 2

----------------------------------------------------------------------------
\* C6: at every point of the glow loop, among the glow circles issued so
\* far a larger radius never has a higher alpha; and when the loop has
\* finished, of two pixels within 130 of the glow centre the one farther
\* away never has the higher alpha, and both are in the glow's gold.
GlowMonotone ==
    /\ (pc = "draw" /\ k <= ConnBase) =>
         \A i, j \in 1..Len(ChestGlow) :
            (GlowBase + i <= Len(log) /\ GlowBase + j <= Len(log)
               /\ Radius(log[GlowBase + i]) >= Radius(log[GlowBase + j])) =>
            log[GlowBase + i].ink[4] <= log[GlowBase + j].ink[4]
    /\ (pc = "draw" /\ k = ConnBase) =>
         \A p, q \in DOMAIN img.px :
            (Dist2(GlowCentre, p) <= Dist2(GlowCentre, q)
               /\ Dist2(GlowCentre, q) <= 130 * 130) =>
            /\ img.px[q][4] <= img.px[p][4]
            /\ <<img.px[q][1], img.px[q][2], img.px[q][3]>> = <<212, 168, 83>>

GlowWitness ==
    /\ pc = "draw" /\ k = ConnBase
    /\ Radius(log[GlowBase + 1]) = 130 /\ Radius(log[k]) = 2
    /\ img.px[GlowCentre][4] = 11
    /\ img.px[<<GlowCentre[1] + 65, GlowCentre[2]>>][4] = 2
    /\ img.px[<<GlowCentre[1] + 130, GlowCentre[2]>>][4] = 0

----------------------------------------------------------------------------
\* the outer and the core circle issued for chest node i (counted from 0)
OuterOf(i) == log[NodeBase + 3 * i + 1]
CoreOf(i) == log[NodeBase + 3 * i + 2]
NodeDrawn(i) == Len(log) >= NodeBase + 3 * (i + 1)

\* C7: the 17 node indices fall in the tiers 0, 1-3, 4-7, 8-12, 13-16; the
\* core radius issued for node 0 is at least that of any node from 13 on;
\* and core radius, core alpha, outer radius and outer alpha never increase
\* with the node index.
NodeTiers ==
    /\ Len(nodes) = 17
    /\ \A i \in 0..16 :
         Tier(i) = (IF i = 0 THEN 0 ELSE IF i \in 1..3 THEN 1
                    ELSE IF i \in 4..7 THEN 2 ELSE IF i \in 8..12 THEN 3 ELSE 4)
    /\ \A j \in 13..16 :
         NodeDrawn(j) => Radius(CoreOf(0)) >= Radius(CoreOf(j))
    /\ \A i, j \in 0..16 :
         (i < j /\ NodeDrawn(j)) =>
            /\ Radius(CoreOf(i)) >= Radius(CoreOf(j))
            /\ CoreOf(i).ink[4] >= CoreOf(j).ink[4]
            /\ Radius(OuterOf(i)) >= Radius(OuterOf(j))
            /\ OuterOf(i).ink[4] >= OuterOf(j).ink[4]

NodeTiersWitness ==
    /\ NodeDrawn(16)
    /\ Radius(CoreOf(0)) = 7 /\ Radius(CoreOf(16)) = 4
    /\ CoreOf(0).ink[4] = 220 /\ CoreOf(16).ink[4] = 140

----------------------------------------------------------------------------
\* pass n of chest connection c and of head connection c (c counted from 1)
ChestPass(c, n) == log[ConnBase + 4 * (c - 1) + n]
HeadPass(c, n) == log[HeadConnBase + 3 * (c - 1) + n]
ChestConnDrawn(c) == Len(log) >= ConnBase + 4 * c
HeadConnDrawn(c) == Len(log) >= HeadConnBase + 3 * c

\* C8 as stated: over the passes of a connection, first to last, the width
\* strictly decreases and the alpha never decreases.
GlowPassesAlphaRising ==
    /\ \A c \in 1..Len(conns) : ChestConnDrawn(c) =>
         \A n \in 1..3 :
            /\ ChestPass(c, n).xy = ChestPass(c, n + 1).xy
            /\ ChestPass(c, n).width > ChestPass(c, n + 1).width
            /\ ChestPass(c, n).ink[4] <= ChestPass(c, n + 1).ink[4]
    /\ \A c \in 1..Len(h_conns) : HeadConnDrawn(c) =>
         \A n \in 1..2 :
            /\ HeadPass(c, n).xy = HeadPass(c, n + 1).xy
            /\ HeadPass(c, n).width > HeadPass(c, n + 1).width
            /\ HeadPass(c, n).ink[4] <= HeadPass(c, n + 1).ink[4]

\* C8 as amended: over the passes of a connection, all on the same two
\* endpoints, the width strictly decreases; the alpha never decreases up to
\* the main line (the pass of width 2), and the last pass, the bright core
\* of width 1 in the light gold, has a lower alpha than the main line.
GlowPassesWidthFalling ==
    /\ \A c \in 1..Len(conns) : ChestConnDrawn(c) =>
         /\ \A n \in 1..3 :
              /\ ChestPass(c, n).xy = ChestPass(c, n + 1).xy
              /\ ChestPass(c, n).width > ChestPass(c, n + 1).width
         /\ \A n \in 1..2 : ChestPass(c, n).ink[4] <= ChestPass(c, n + 1).ink[4]
         /\ ChestPass(c, 3).width = 2 /\ ChestPass(c, 4).width = 1
         /\ ChestPass(c, 4).ink[4] < ChestPass(c, 3).ink[4]
    /\ \A c \in 1..Len(h_conns) : HeadConnDrawn(c) =>
         /\ \A n \in 1..2 :
              /\ HeadPass(c, n).xy = HeadPass(c, n + 1).xy
              /\ HeadPass(c, n).width > HeadPass(c, n + 1).width
         /\ HeadPass(c, 1).ink[4] <= HeadPass(c, 2).ink[4]
         /\ HeadPass(c, 2).width = 2 /\ HeadPass(c, 3).width = 1
         /\ HeadPass(c, 3).ink[4] < HeadPass(c, 2).ink[4]

GlowPassesWitness ==
    /\ ChestConnDrawn(Len(conns)) /\ HeadConnDrawn(Len(h_conns))
    /\ ChestPass(1, 3).ink = GoldA(135) /\ ChestPass(1, 4).ink = LightA(67)
    /\ HeadPass(1, 2).ink = GoldA(70) /\ HeadPass(1, 3).ink = LightA(35)

----------------------------------------------------------------------------
\* squared distance between the endpoints of chest connection c
ConnDist2(c) == Dist2(NodeAt(nodes, conns[c][1]), NodeAt(nodes, conns[c][2]))

\* alpha of the main line issued for chest connection c
MainAlpha(c) == ChestPass(c, 3).ink[4]

\* C9: the main line of every chest connection runs between nodes[a] and
\* nodes[b] with alpha 100 + t, where t is the integer part of
\* 50 * (1 - dist/200), dist < 200 being the distance of the endpoints;
\* the alpha lies in 100..150; of two connections the one not longer has an
\* alpha at least as high (compared at every point of the connection
\* loop); all indices of conns and h_conns name a node.
BaseAlphaRule ==
    /\ \A c \in 1..Len(conns) :
         /\ conns[c][1] \in 0..(Len(nodes) - 1)
         /\ conns[c][2] \in 0..(Len(nodes) - 1)
    /\ \A c \in 1..Len(h_conns) :
         /\ h_conns[c][1] \in 0..(Len(h_nodes) - 1)
         /\ h_conns[c][2] \in 0..(Len(h_nodes) - 1)
    /\ \A c \in 1..Len(conns) : ChestConnDrawn(c) =>
         LET t == MainAlpha(c) - 100
         IN /\ ChestPass(c, 3).xy = NodeAt(nodes, conns[c][1]) \o NodeAt(nodes, conns[c][2])
            /\ MainAlpha(c) \in 100..150
            /\ ConnDist2(c) < 200 * 200
            \* t <= 50 - dist/4 < t + 1
            /\ ConnDist2(c) <= 16 * (50 - t) * (50 - t)
            /\ ConnDist2(c) > 16 * (49 - t) * (49 - t)
    /\ (pc = "draw" /\ k <= NodeBase) =>
         \A c, d \in 1..Len(conns) :
            (ChestConnDrawn(c) /\ ChestConnDrawn(d) /\ ConnDist2(c) <= ConnDist2(d)) =>
            MainAlpha(c) >= MainAlpha(d)

BaseAlphaWitness ==
    /\ ChestConnDrawn(Len(conns))
    /\ ConnDist2(26) < ConnDist2(13)
    /\ MainAlpha(26) = 140 /\ MainAlpha(13) = 133

----------------------------------------------------------------------------
\* a particle with centre c and size sz keeps its disc on the canvas and
\* inside the frame ring of radius 478
DiscInside(c, sz) ==
    /\ c[1] - sz >= 0 /\ c[1] + sz <= 1023
    /\ c[2] - sz >= 0 /\ c[2] + sz <= 1023
    /\ (c[1] - 512) * (c[1] - 512) + (c[2] - 512) * (c[2] - 512)
         <= (478 - sz) * (478 - sz)

\* for every state of the generator and every direction: the values drawn
\* are in range and the disc is inside
EveryDrawInside ==
    \A s \in 0..(RngMod - 1) :
        /\ SizeOf(s) \in {1, 2}
        /\ AlphaOf(s) \in 15..45
        /\ AngleOf(s) \in 1..Len(Dirs)
        /\ DistOf(s) >= 360 * UDen /\ DistOf(s) <= 465 * UDen
        /\ \A a \in 1..Len(Dirs) : DiscInside(Centre(a, DistOf(s)), 2)

\* C10: exactly 25 particles are drawn, after all other draw calls and
\* before any save; each has size 1 or 2, alpha in 15..45, a distance drawn
\* from [360, 465], and a disc inside the canvas and inside the frame ring;
\* the same holds of every value the generator can return.
ParticlesBounded ==
    /\ EveryDrawInside
    /\ Len(particles) <= 25
    /\ Len(particles) > 0 => (k = Len(Script) /\ log[k] = FrameRing)
    /\ Len(log) = k + Len(particles)
    /\ (written # {} \/ pc \in {"final_new", "composite", "convert", "save_rgb"}) =>
         Len(particles) = 25
    /\ \A i \in 1..Len(particles) :
         LET pt == particles[i]
         IN /\ pt.sz \in {1, 2}
            /\ pt.alpha \in 15..45
            /\ pt.dist >= 360 * UDen /\ pt.dist <= 465 * UDen
            /\ DiscInside(<<pt.px, pt.py>>, pt.sz)
            /\ log[k + i] = circle(pt.px, pt.py, pt.sz, <<212, 168, 83, pt.alpha>>)

ParticlesWitness ==
    /\ pc = "done" /\ Len(particles) = 25
    /\ \E i, j \in 1..25 : particles[i].sz = 1 /\ particles[j].sz = 2
    /\ \E i \in 1..25 : particles[i].dist > 450 * UDen
    /\ \E i \in 1..25 : particles[i].dist < 375 * UDen
=============================================================================
